---------------------------- MODULE Spec2Model ----------------------------
(***************************************************************************)
(* Model of vedo/transformations.py: the LinearTransform wrapper around a  *)
(* vtkTransform engine.                                                    *)
(*                                                                         *)
(* Numbers are exact rationals <<n, d>> (d > 0, lowest terms) in place of  *)
(* IEEE doubles, so equalities stated here hold in the code up to rounding.*)
(* Angles are multiples of a quarter turn; radians are kept as rational    *)
(* multiples of pi (the value 1/2 stands for pi/2).                        *)
(*                                                                         *)
(* The engine is modelled by what vtkTransform does: a list of             *)
(* concatenated matrices and of transforms held by reference, a            *)
(* multiplication mode, an inverse flag, a Push/Pop stack, and the matrix  *)
(* it keeps between Updates with the modification times that decide when   *)
(* it is recomputed.                                                       *)
(*                                                                         *)
(* Not modelled: the vtkMatrix4x4 and landmark constructors, the           *)
(* orientation and matrix3x3 properties, zero scale factors,               *)
(* get_concatenated_transform on an entry that is a plain matrix (the      *)
(* engine returns an object without PostMultiply, so __init__ raises).     *)
(***************************************************************************)
EXTENDS Integers, Sequences, FiniteSets, TLC

(***************************************************************************)
(* Rational arithmetic (the float arithmetic of numpy and of the engine).  *)
(***************************************************************************)
Abs(x) == IF x < 0 THEN -x ELSE x

RECURSIVE GCD(_, _)
GCD(a, b) == IF b = 0 THEN a ELSE GCD(b, a % b)

Reduce(n, d, g) == <<n \div g, d \div g>>
Q(n, d) ==
    IF n = 0 THEN <<0, 1>>
    ELSE IF d < 0 THEN Reduce(-n, -d, GCD(Abs(n), Abs(d)))
    ELSE Reduce(n, d, GCD(Abs(n), Abs(d)))

QI(k) == <<k, 1>>
QZero == QI(0)
QOne == QI(1)
QAdd(a, b) ==
    IF a[1] = 0 THEN b
    ELSE IF b[1] = 0 THEN a
    ELSE IF a[2] = 1 /\ b[2] = 1 THEN <<a[1] + b[1], 1>>
    ELSE Q(a[1] * b[2] + b[1] * a[2], a[2] * b[2])
QNeg(a) == <<-a[1], a[2]>>
QSub(a, b) == QAdd(a, QNeg(b))
QMul(a, b) ==
    IF a[1] = 0 \/ b[1] = 0 THEN <<0, 1>>
    ELSE IF a[2] = 1 /\ b[2] = 1 THEN <<a[1] * b[1], 1>>
    ELSE Q(a[1] * b[1], a[2] * b[2])
QDiv(a, b) == Q(a[1] * b[2], a[2] * b[1])
QAbs(a) == <<Abs(a[1]), a[2]>>
QLess(a, b) == a[1] * b[2] < b[1] * a[2]
QLeq(a, b) == a[1] * b[2] <= b[1] * a[2]
QHalf(a) == QDiv(a, QI(2))
QDbl(a) == QAdd(a, a)

\* exact square root of a perfect square (np.linalg.norm / the engine's sqrt
\* on the inputs of this model, all of which have a rational norm)
ISqrt(s) == CHOOSE r \in 0..s : r * r = s
QSqrt(a) == <<ISqrt(a[1]), ISqrt(a[2])>>

(***************************************************************************)
(* 3-vectors and 4x4 matrices.                                             *)
(***************************************************************************)
I3 == 1..3
I4 == 1..4

V3(v) == <<QI(v[1]), QI(v[2]), QI(v[3])>>
VAdd(u, v) == <<QAdd(u[1], v[1]), QAdd(u[2], v[2]), QAdd(u[3], v[3])>>
VSub(u, v) == <<QSub(u[1], v[1]), QSub(u[2], v[2]), QSub(u[3], v[3])>>
VNeg(u) == <<QNeg(u[1]), QNeg(u[2]), QNeg(u[3])>>
VZero == V3(<<0, 0, 0>>)
VDot(u, v) == QAdd(QAdd(QMul(u[1], v[1]), QMul(u[2], v[2])), QMul(u[3], v[3]))
VNorm(u) == QSqrt(VDot(u, u))
VScaleDiv(u, q) == <<QDiv(u[1], q), QDiv(u[2], q), QDiv(u[3], q)>>

\* np.dot(R, v) for a 3x3 R
M3Apply(R, v) == <<VDot(R[1], v), VDot(R[2], v), VDot(R[3], v)>>

Identity4 ==
    << <<QOne, QZero, QZero, QZero>>,
       <<QZero, QOne, QZero, QZero>>,
       <<QZero, QZero, QOne, QZero>>,
       <<QZero, QZero, QZero, QOne>> >>

\* vtkMatrix4x4::Multiply4x4
MCell(A, B, i, j) ==
    QAdd(QAdd(QMul(A[i][1], B[1][j]), QMul(A[i][2], B[2][j])),
         QAdd(QMul(A[i][3], B[3][j]), QMul(A[i][4], B[4][j])))
MRow(A, B, i) == <<MCell(A, B, i, 1), MCell(A, B, i, 2), MCell(A, B, i, 3), MCell(A, B, i, 4)>>
MMul(A, B) == <<MRow(A, B, 1), MRow(A, B, 2), MRow(A, B, 3), MRow(A, B, 4)>>

\* determinant of a square matrix given as a sequence of rows (Laplace
\* expansion along the first row)
DropAt(s, k) == SubSeq(s, 1, k - 1) \o SubSeq(s, k + 1, Len(s))
RECURSIVE DropColumn(_, _)
DropColumn(rows, c) ==
    IF rows = <<>> THEN <<>>
    ELSE <<DropAt(Head(rows), c)>> \o DropColumn(Tail(rows), c)
MinorOf(A, r, c) == DropColumn(DropAt(A, r), c)

RECURSIVE Det(_)
Det(A) ==
    IF Len(A) = 1 THEN A[1][1]
    ELSE LET term(j) ==
                 IF A[1][j] = QZero THEN QZero
                 ELSE LET t == QMul(A[1][j], Det(MinorOf(A, 1, j)))
                      IN  IF j % 2 = 1 THEN t ELSE QNeg(t)
             RECURSIVE sum(_)
             sum(j) == IF j = 0 THEN QZero ELSE QAdd(sum(j - 1), term(j))
         IN  sum(Len(A))

\* vtkMatrix4x4::Invert: adjugate over determinant; a singular matrix is
\* left as it is
Cofactor(A, i, j) ==
    IF (i + j) % 2 = 0 THEN Det(MinorOf(A, i, j)) ELSE QNeg(Det(MinorOf(A, i, j)))
AdjugateRow(A, d, i) ==
    <<QDiv(Cofactor(A, 1, i), d), QDiv(Cofactor(A, 2, i), d),
      QDiv(Cofactor(A, 3, i), d), QDiv(Cofactor(A, 4, i), d)>>
AdjugateOver(A, d) ==
    IF d = QZero THEN A
    ELSE <<AdjugateRow(A, d, 1), AdjugateRow(A, d, 2),
           AdjugateRow(A, d, 3), AdjugateRow(A, d, 4)>>
MInv(A) == AdjugateOver(A, Det(A))

TransMat(p) ==
    << <<QOne, QZero, QZero, p[1]>>,
       <<QZero, QOne, QZero, p[2]>>,
       <<QZero, QZero, QOne, p[3]>>,
       <<QZero, QZero, QZero, QOne>> >>

ScaleMat(s) ==
    << <<s[1], QZero, QZero, QZero>>,
       <<QZero, s[2], QZero, QZero>>,
       <<QZero, QZero, s[3], QZero>>,
       <<QZero, QZero, QZero, QOne>> >>

\* the linear 3x3 block of a 4x4 matrix, and a 3x3 block as a 4x4 matrix
Lin3(M) ==
    << <<M[1][1], M[1][2], M[1][3]>>,
       <<M[2][1], M[2][2], M[2][3]>>,
       <<M[3][1], M[3][2], M[3][3]>> >>
Embed3(R) ==
    << <<R[1][1], R[1][2], R[1][3], QZero>>,
       <<R[2][1], R[2][2], R[2][3], QZero>>,
       <<R[3][1], R[3][2], R[3][3], QZero>>,
       <<QZero, QZero, QZero, QOne>> >>

\* vtkTransform::TransformFloatPoint: the homogeneous product M * (x, 1)
ApplyRow(M, x, i) ==
    QAdd(QAdd(QMul(M[i][1], x[1]), QMul(M[i][2], x[2])),
         QAdd(QMul(M[i][3], x[3]), M[i][4]))
MApplyPoint(M, x) == <<ApplyRow(M, x, 1), ApplyRow(M, x, 2), ApplyRow(M, x, 3)>>

(***************************************************************************)
(* Trigonometry on multiples of a quarter turn.  r is the angle in units   *)
(* of pi.                                                                  *)
(***************************************************************************)
QuarterTurns(r) == (2 * r[1]) \div r[2]
CosPi(r) ==
    LET k == QuarterTurns(r) % 4
    IN  IF k = 0 THEN QOne ELSE IF k = 2 THEN QNeg(QOne) ELSE QZero
SinPi(r) ==
    LET k == QuarterTurns(r) % 4
    IN  IF k = 1 THEN QOne ELSE IF k = 3 THEN QNeg(QOne) ELSE QZero

\* np.deg2rad, and the code's angle *= 180 / np.pi
Deg2Rad(deg) == QDiv(deg, QI(180))
Rad2Deg(r) == QMul(r, QI(180))


(***************************************************************************)
(* The engine: vtkTransform objects held in a store (a sequence indexed by *)
(* object identity).  An engine is the list of its concatenated transforms *)
(* in the order GetConcatenatedTransform(i) reports them (entry i + 1 of   *)
(* the list is transform i), the two flags, and whether the first / last   *)
(* entry is the engine's own mutable PreMatrix / PostMatrix.  An entry is  *)
(* either such a plain matrix or a live reference to another engine        *)
(* (Concatenate registers the argument, it does not copy it), possibly     *)
(* through its inverse.                                                    *)
(*                                                                         *)
(* The engine keeps its matrix (cache) and recomputes it in Update() as    *)
(* entry n * ... * entry 1 only when its modification time is not older    *)
(* than its last Update.  Times are integers: every change is stamped with *)
(* a time later than every time in the store.                              *)
(*                                                                         *)
(* An entry is a pair of a forward and an inverse transform of which one   *)
(* was given and the other is made on first use (other): fwd tells that    *)
(* the given one is the forward one, inv that the entry stands for the     *)
(* inverse of the given one.  The modification time of an entry is that of *)
(* its forward transform when it has one, else of its inverse transform.   *)
(*                                                                         *)
(* GetInverse() pairs an engine with an inverse engine (myInverse on both  *)
(* sides; dependsOnInverse on the inverse).  The inverse engine copies and *)
(* inverts its source in Update() when the source is not older than the    *)
(* inverse's last Update, dropping what was done to the inverse itself in  *)
(* between.                                                                *)
(*                                                                         *)
(* An engine call that re-enters the engine it is running on (Update or    *)
(* CircuitCheck on an engine that is one of its own concatenated           *)
(* transforms, GetMTime likewise) never returns; the store it leaves is    *)
(* marked (overflow) and the call of the wrapper is not a step.            *)
(***************************************************************************)
MatEntry(M, fwd, t) ==
    [kind |-> "m", mat |-> M, ref |-> 0, inv |-> FALSE, fwd |-> fwd,
     other |-> FALSE, mt |-> t]
RefEntry(r, fwd) ==
    [kind |-> "t", mat |-> Identity4, ref |-> r, inv |-> FALSE, fwd |-> fwd,
     other |-> FALSE, mt |-> 0]

\* vtk.vtkTransform() made at time t: empty concatenation, pre-multiply by
\* default, identity matrix, never updated
NewEngine(t) ==
    [list |-> <<>>, hasPre |-> FALSE, hasPost |-> FALSE,
     inverseFlag |-> FALSE, preMultiply |-> TRUE, stack |-> <<>>,
     myInverse |-> 0, dependsOnInverse |-> FALSE,
     mtime |-> t, updateTime |-> 0, cache |-> Identity4, overflow |-> FALSE]

\* f applied to the value of v, which is computed once
Bind(f(_), v) == CHOOSE r \in {f(x) : x \in {v}} : TRUE

\* the next modification time: later than every time in the store
Stamps(E) ==
    {0} \cup UNION {{E[k].mtime, E[k].updateTime}
                    \cup {E[k].list[j].mt : j \in 1..Len(E[k].list)} :
                    k \in 1..Len(E)}
SetMax(S) == CHOOSE m \in S : \A x \in S : x <= m
Now(E) == SetMax(Stamps(E)) + 1

\* Modified() on engine id
Modified(E, id) == Bind(LAMBDA F : [F EXCEPT ![id].mtime = Now(F)], E)

\* a call that never returns, and the stores of the calls that do
Overflow(E, id) == [E EXCEPT ![id].overflow = TRUE]
Returns(E) == \A k \in 1..Len(E) : ~E[k].overflow

\* the engine a transform entry stands for, once both of its sides exist
HasInverse(E, id) == E[id].myInverse # 0
InverseId(E, id) == IF HasInverse(E, id) THEN E[id].myInverse ELSE Len(E) + 1
TransformAt(E, x) == IF x.inv THEN E[x.ref].myInverse ELSE x.ref

\* vtkTransform::GetMTime: the latest of the engine's own time, of its
\* source's when it is an inverse engine, and of its entries'; -1 when the
\* call re-enters an engine it is running on (P)
Latest(S) == IF -1 \in S THEN -1 ELSE SetMax(S)
Watched(E, x) == IF x.fwd \/ ~x.other THEN x.ref ELSE E[x.ref].myInverse
RECURSIVE MTimeOn(_, _, _)
EntryMTime(E, x, P) ==
    IF x.kind = "m" THEN x.mt ELSE MTimeOn(E, Watched(E, x), P)
MTimeOn(E, a, P) ==
    IF a \in P THEN -1
    ELSE Latest({E[a].mtime}
                \cup (IF E[a].dependsOnInverse
                      THEN {MTimeOn(E, E[a].myInverse, P \cup {a})} ELSE {})
                \cup {EntryMTime(E, E[a].list[k], P \cup {a}) :
                      k \in 1..Len(E[a].list)})
GetMTime(E, a) == MTimeOn(E, a, {})

\* GetInverse(): the paired inverse engine, made on first request by
\* SetInverse, which runs the source's CircuitCheck.
\* GetTransform(k): the transform entry k stands for, its missing side made
\* on first use.
\* vtkTransform::CircuitCheck(a, b): does engine a depend on engine b, asked
\* of a, of its source when it is an inverse engine, then of its entries in
\* order.
RECURSIVE GetInverse(_, _)
RECURSIVE GetTransform(_, _, _)
RECURSIVE CircuitCheckOn(_, _, _, _)
RECURSIVE CircuitEntries(_, _, _, _, _)
SetInverse(r, u, id) ==
    IF r.circuit THEN r.store
    ELSE [r.store EXCEPT ![u].myInverse = id, ![u].dependsOnInverse = TRUE,
                         ![u].mtime = Now(r.store)]
GetInverse(E, id) ==
    IF HasInverse(E, id) THEN E
    ELSE Bind(LAMBDA F : Bind(LAMBDA r : SetInverse(r, Len(F) + 1, id),
                              CircuitCheckOn(
                                  Append([F EXCEPT ![id].myInverse = Len(F) + 1],
                                         NewEngine(Now(F))),
                                  id, Len(F) + 1, {})),
              E)

MadeOther(E, a, k, x) ==
    IF x.kind = "m"
    THEN [E EXCEPT ![a].list[k].other = TRUE,
                   ![a].list[k].mt = IF x.fwd THEN @ ELSE Now(E)]
    ELSE [GetInverse(E, x.ref) EXCEPT ![a].list[k].other = TRUE]
GetTransform(E, a, k) ==
    Bind(LAMBDA F : IF ~F[a].list[k].inv \/ F[a].list[k].other THEN F
                    ELSE MadeOther(F, a, k, F[a].list[k]),
         E)

NoCircuit(E) == [store |-> E, circuit |-> FALSE]
CircuitEntry(E, x, b, P) ==
    IF x.kind = "t" THEN CircuitCheckOn(E, TransformAt(E, x), b, P)
    ELSE NoCircuit(E)
CircuitEntries(E, a, b, k, P) ==
    IF k > Len(E[a].list) THEN NoCircuit(E)
    ELSE Bind(LAMBDA r : IF r.circuit \/ ~Returns(r.store) THEN r
                         ELSE CircuitEntries(r.store, a, b, k + 1, P),
              Bind(LAMBDA F : CircuitEntry(F, F[a].list[k], b, P),
                   GetTransform(E, a, k)))
CircuitCheckOn(E, a, b, P) ==
    IF a = b THEN [store |-> E, circuit |-> TRUE]
    ELSE IF a \in P THEN NoCircuit(Overflow(E, a))
    ELSE IF E[a].dependsOnInverse
    THEN Bind(LAMBDA r : IF r.circuit \/ ~Returns(r.store) THEN r
                         ELSE CircuitEntries(r.store, a, b, 1, P \cup {a}),
              CircuitCheckOn(E, E[a].myInverse, b, P \cup {a}))
    ELSE CircuitEntries(E, a, b, 1, P \cup {a})
CircuitCheck(E, a, b) == CircuitCheckOn(E, a, b, {})

\* Inverse() on the concatenation: the list reversed, each entry inverted
\* (the PreMatrix and PostMatrix in place, the others by taking their other
\* side), PreMatrix and PostMatrix swapped, the flag flipped
OwnMatrix(e, k) == (k = 1 /\ e.hasPre) \/ (k = Len(e.list) /\ e.hasPost)
InvEntry(x, own, t) ==
    IF own THEN [x EXCEPT !.mat = MInv(@), !.fwd = ~@, !.mt = t]
    ELSE IF x.kind = "m" THEN [x EXCEPT !.mat = MInv(@), !.inv = ~@]
    ELSE [x EXCEPT !.inv = ~@]
RECURSIVE ReverseInverted(_, _, _)
ReverseInverted(e, k, t) ==
    IF k = 0 THEN <<>>
    ELSE <<InvEntry(e.list[k], OwnMatrix(e, k), t)>> \o ReverseInverted(e, k - 1, t)
InverseOf(e, t) ==
    [e EXCEPT !.list = ReverseInverted(e, Len(e.list), t),
              !.hasPre = e.hasPost,
              !.hasPost = e.hasPre,
              !.inverseFlag = ~e.inverseFlag,
              !.mtime = t]

\* InternalDeepCopy (in Update): the concatenation of src as it stands (no Update), the
\* PreMatrix and PostMatrix by value and the other entries by reference,
\* the flags, the stack and the matrix
CopyEntry(x, own, t) == IF own THEN [x EXCEPT !.mt = t] ELSE x
RECURSIVE CopiedList(_, _, _)
CopiedList(src, k, t) ==
    IF k > Len(src.list) THEN <<>>
    ELSE <<CopyEntry(src.list[k], OwnMatrix(src, k), t)>> \o CopiedList(src, k + 1, t)
DeepCopyOf(e, src, t) ==
    [e EXCEPT !.list = CopiedList(src, 1, t),
              !.hasPre = src.hasPre,
              !.hasPost = src.hasPost,
              !.inverseFlag = src.inverseFlag,
              !.preMultiply = src.preMultiply,
              !.stack = src.stack,
              !.cache = src.cache]

\* vtkAbstractTransform::Update: an inverse engine whose source is not older
\* than its last Update becomes the inverted copy of the source and is
\* recomputed; any other engine is recomputed when it is not older than its
\* last Update; the Update is stamped.
\* InternalUpdate: every entry's transform is fetched and updated, and the
\* matrix is the product of theirs.
EntryMatrix(E, x) == IF x.kind = "m" THEN x.mat ELSE E[TransformAt(E, x)].cache
RECURSIVE ProductOf(_, _, _)
ProductOf(E, l, k) ==
    IF k = 0 THEN Identity4 ELSE MMul(EntryMatrix(E, l[k]), ProductOf(E, l, k - 1))
Refreshed(E, a) ==
    [E EXCEPT ![a] = InverseOf(DeepCopyOf(@, E[E[a].myInverse], Now(E)), Now(E))]
Stamped(E, a) == Bind(LAMBDA F : [F EXCEPT ![a].updateTime = Now(F)], E)
SourceMTime(E, a) == IF E[a].dependsOnInverse THEN GetMTime(E, E[a].myInverse) ELSE 0
RECURSIVE UpdateOn(_, _, _)
RECURSIVE InternalUpdate(_, _, _, _)
UpdateEntry(E, x, P) ==
    IF x.kind = "t" THEN Bind(LAMBDA F : UpdateOn(F, TransformAt(F, x), P), E) ELSE E
Recomputed(E, a) == [E EXCEPT ![a].cache = ProductOf(E, E[a].list, Len(E[a].list))]
InternalUpdate(E, a, k, P) ==
    Bind(LAMBDA F : IF k > Len(F[a].list) THEN Recomputed(F, a)
                    ELSE InternalUpdate(UpdateEntry(GetTransform(F, a, k), F[a].list[k], P),
                                        a, k + 1, P),
         E)
UpdateFrom(E, a, P, src, own) ==
    IF src = -1 THEN Overflow(E, a)
    ELSE IF E[a].dependsOnInverse /\ src >= E[a].updateTime
    THEN Stamped(InternalUpdate(Refreshed(E, a), a, 1, P \cup {a}), a)
    ELSE IF own = -1 THEN Overflow(E, a)
    ELSE IF own >= E[a].updateTime
    THEN Stamped(InternalUpdate(E, a, 1, P \cup {a}), a)
    ELSE Stamped(E, a)
UpdateOn(E, a, P) ==
    IF a \in P THEN Overflow(E, a)
    ELSE Bind(LAMBDA F : UpdateFrom(F, a, P, SourceMTime(F, a), GetMTime(F, a)), E)
Update(E, id) == UpdateOn(E, id, {})

\* self.T.GetMatrix(): the matrix after Update()
GetMatrix(E, id) == Update(E, id)[id].cache

\* self.T.GetPosition()
PositionOf(M) == <<M[1][4], M[2][4], M[3][4]>>
GetPosition(E, id) == PositionOf(GetMatrix(E, id))

\* self.T.GetScale(): the singular values of the linear block, each negated
\* when its determinant is negative.  For the matrices of this model (the
\* columns of the linear block are mutually orthogonal) these are the column
\* lengths, in column order.
Column(A, j) == <<A[1][j], A[2][j], A[3][j]>>
SignedLength(A, d, j) ==
    IF QLess(d, QZero) THEN QNeg(VNorm(Column(A, j))) ELSE VNorm(Column(A, j))
SignedLengths(A, d) == <<SignedLength(A, d, 1), SignedLength(A, d, 2), SignedLength(A, d, 3)>>
ScaleOf(A) == SignedLengths(A, Det(A))
GetScale(E, id) == ScaleOf(Lin3(GetMatrix(E, id)))

\* self.T.GetNumberOfConcatenatedTransforms()
GetNumberOfConcatenatedTransforms(E, id) == Len(E[id].list)

\* self.T.GetInverseFlag()
GetInverseFlag(E, id) == E[id].inverseFlag

\* Concatenate(elements) at time t: multiply into the PreMatrix /
\* PostMatrix, creating it at the matching end of the list when absent
WithPreMatrix(e, t) ==
    IF e.hasPre THEN e
    ELSE [e EXCEPT !.list = <<MatEntry(Identity4, ~e.inverseFlag, t)>> \o @,
                   !.hasPre = TRUE]
WithPostMatrix(e, t) ==
    IF e.hasPost THEN e
    ELSE [e EXCEPT !.list = Append(@, MatEntry(Identity4, ~e.inverseFlag, t)),
                   !.hasPost = TRUE]
MulPreMatrix(e, A, t) == [e EXCEPT !.list[1].mat = MMul(@, A), !.list[1].mt = t]
MulPostMatrix(e, A, t) ==
    [e EXCEPT !.list[Len(e.list)].mat = MMul(A, @), !.list[Len(e.list)].mt = t]
ConcatElements(e, A, t) ==
    IF e.preMultiply
    THEN MulPreMatrix(WithPreMatrix(e, t), A, t)
    ELSE MulPostMatrix(WithPostMatrix(e, t), A, t)
ConcatenateMatrix(E, id, A) ==
    Bind(LAMBDA F : [F EXCEPT ![id] = ConcatElements(@, A, Now(F))], E)

\* the engine's rotation matrix of RotateWXYZ (quaternion of the half angle,
\* axis normalized); the half-angle products are taken through the
\* double-angle identities: w*w = (1 + cos)/2, x*x = nx^2 (1 - cos)/2,
\* w*x = nx sin / 2
QuaternionMatrix(ww, xx, yy, zz, xy, xz, yz, wx, wy, wz) ==
    Embed3(<< <<QSub(QSub(QAdd(ww, xx), yy), zz), QDbl(QSub(xy, wz)), QDbl(QAdd(xz, wy))>>,
              <<QDbl(QAdd(xy, wz)), QSub(QSub(QAdd(ww, yy), xx), zz), QDbl(QSub(yz, wx))>>,
              <<QDbl(QSub(xz, wy)), QDbl(QAdd(yz, wx)), QSub(QSub(QAdd(ww, zz), xx), yy)>> >>)
UnitQuaternionMatrix(c2, s2, sc, n) ==
    QuaternionMatrix(c2,
        QMul(QMul(n[1], n[1]), s2), QMul(QMul(n[2], n[2]), s2), QMul(QMul(n[3], n[3]), s2),
        QMul(QMul(n[1], n[2]), s2), QMul(QMul(n[1], n[3]), s2), QMul(QMul(n[2], n[3]), s2),
        QMul(n[1], sc), QMul(n[2], sc), QMul(n[3], sc))
HalfCosSq(r) == QHalf(QAdd(QOne, CosPi(r)))
HalfSinSq(r) == QHalf(QSub(QOne, CosPi(r)))
HalfSinCos(r) == QHalf(SinPi(r))
Normalized(axis) == VScaleDiv(axis, VNorm(axis))
EngineRotMat(deg, axis) ==
    UnitQuaternionMatrix(HalfCosSq(Deg2Rad(deg)), HalfSinSq(Deg2Rad(deg)),
                         HalfSinCos(Deg2Rad(deg)), Normalized(axis))

\* self.T.Translate(x, y, z): nothing is concatenated, and the engine is not
\* modified, for a zero offset
Translate(E, id, p) ==
    IF p = VZero THEN E ELSE ConcatenateMatrix(E, id, TransMat(p))

\* self.T.Scale(x, y, z): nothing is concatenated, and the engine is not
\* modified, for unit factors
Scale(E, id, s) ==
    IF s = <<QOne, QOne, QOne>> THEN E ELSE ConcatenateMatrix(E, id, ScaleMat(s))

\* self.T.RotateWXYZ(angle, x, y, z): nothing is concatenated, and the
\* engine is not modified, for a zero angle or axis
RotateWXYZ(E, id, deg, axis) ==
    IF deg = QZero \/ axis = VZero THEN E
    ELSE ConcatenateMatrix(E, id, EngineRotMat(deg, axis))

\* self.T.RotateX / RotateY / RotateZ(angle)
RotateX(E, id, deg) == RotateWXYZ(E, id, deg, V3(<<1, 0, 0>>))
RotateY(E, id, deg) == RotateWXYZ(E, id, deg, V3(<<0, 1, 0>>))
RotateZ(E, id, deg) == RotateWXYZ(E, id, deg, V3(<<0, 0, 1>>))

\* self.T.Identity(): drops every concatenated transform; the flags stay
Identity(E, id) ==
    Modified([E EXCEPT ![id].list = <<>>, ![id].hasPre = FALSE,
                       ![id].hasPost = FALSE], id)

\* self.T.SetMatrix(m): Identity, then Concatenate(elements)
SetMatrix(E, id, M) == ConcatenateMatrix(Identity(E, id), id, M)

\* self.T.Inverse()
Inverse(E, id) == Bind(LAMBDA F : [F EXCEPT ![id] = InverseOf(@, Now(F))], E)

\* self.T.Concatenate(other): refused on a circular reference; the transform
\* is added by reference in front (pre-multiply) or at the end, as the
\* forward side of its entry unless the inverse flag is set, and the matrix
\* at that end stops being the engine's mutable one
AddTransform(e, t) ==
    IF e.preMultiply
    THEN [e EXCEPT !.list = <<RefEntry(t, ~e.inverseFlag)>> \o e.list, !.hasPre = FALSE]
    ELSE [e EXCEPT !.list = Append(e.list, RefEntry(t, ~e.inverseFlag)), !.hasPost = FALSE]
Accept(r, id, t) ==
    IF r.circuit \/ ~Returns(r.store) THEN r.store
    ELSE Modified([r.store EXCEPT ![id] = AddTransform(@, t)], id)
Concatenate(E, id, t) == Bind(LAMBDA r : Accept(r, id, t), CircuitCheck(E, t, id))

\* self.T.PreMultiply() / self.T.PostMultiply(): nothing when already set
PreMultiply(E, id) ==
    Bind(LAMBDA F : IF F[id].preMultiply THEN F
                    ELSE Modified([F EXCEPT ![id].preMultiply = TRUE], id),
         E)
PostMultiply(E, id) ==
    Bind(LAMBDA F : IF ~F[id].preMultiply THEN F
                    ELSE Modified([F EXCEPT ![id].preMultiply = FALSE], id),
         E)

\* self.T.Pop(): restores the concatenation saved by the last Push; nothing
\* when nothing was pushed
Restore(e, top, rest) ==
    [e EXCEPT !.list = top.list, !.hasPre = top.hasPre, !.hasPost = top.hasPost,
              !.inverseFlag = top.inverseFlag, !.preMultiply = top.preMultiply,
              !.stack = rest]
PopOf(e) ==
    Restore(e, e.stack[Len(e.stack)], SubSeq(e.stack, 1, Len(e.stack) - 1))
Pop(E, id) ==
    IF E[id].stack = <<>> THEN E
    ELSE Modified([E EXCEPT ![id] = PopOf(@)], id)

\* self.T.Clone: vtkTransform has no method of that name (it copies through
\* MakeTransform and DeepCopy), so the attribute lookup raises
Clone == "AttributeError"

(***************************************************************************)
(* LinearTransform: a wrapper is the engine it holds (self.T) and its      *)
(* inverse_flag.  Each method is a function of the engine store E and of   *)
(* the wrapper's engine id, returning the new store.                       *)
(***************************************************************************)
\* _is_sequence(arg) on an argument given as [seq |-> BOOLEAN, val |-> ...]
IsSequence(arg) == arg.seq
Scalar(q) == [seq |-> FALSE, val |-> q]
Sequence(v) == [seq |-> TRUE, val |-> v]
\* the Python booleans as arguments, and `arg is True`
PyTrue == [seq |-> FALSE, val |-> "True"]
PyFalse == [seq |-> FALSE, val |-> "False"]
PyNone == [seq |-> FALSE, val |-> "None"]
IsTrue(arg) == ~arg.seq /\ arg.val = "True"

\* __init__ on a vtkTransform: keeps the object, sets post-multiply, clears
\* the wrapper's flag
InitEngine(E, id) == PostMultiply(E, id)
InitWrapper(id) == [T |-> id, inverse_flag |-> FALSE]

\* the 4x4 matrix filled element by element from an n x n sequence
\* (__init__ lines 53-58 and the matrix setter)
FillCell(M, i, j) ==
    IF i <= Len(M) /\ j <= Len(M) THEN M[i][j] ELSE Identity4[i][j]
FillRow(M, i) == <<FillCell(M, i, 1), FillCell(M, i, 2), FillCell(M, i, 3), FillCell(M, i, 4)>>
FillMatrix(M) == <<FillRow(M, 1), FillRow(M, 2), FillRow(M, 3), FillRow(M, 4)>>

\* __init__ on a nested sequence: a new engine holding that matrix
InitFromSequence(E, M) ==
    InitEngine(SetMatrix(Append(E, NewEngine(Now(E))), Len(E) + 1, FillMatrix(M)),
               Len(E) + 1)

\* the matrix property: the value read, and the engine's Update() behind
\* GetMatrix()
matrix(E, id) == GetMatrix(E, id)
matrix_read(E, id) == Update(E, id)

\* the matrix setter
set_matrix(E, id, M) == SetMatrix(E, id, FillMatrix(M))

\* apply_to on a bare coordinate
apply_to_point(E, id, x) == MApplyPoint(GetMatrix(E, id), x)

\* faulty variant of AllcloseIdentity: the matrix compared with zero, not with eye(4)
AllcloseZero(M) ==
    \A i \in I4 : \A j \in I4 : QLeq(QAbs(M[i][j]), <<1, 100000000>>)

\* np.allclose(M - np.eye(4), 0): |M - I| <= atol = 1e-8 element-wise
AllcloseIdentity(M) ==
    \A i \in I4 : \A j \in I4 :
        QLeq(QAbs(QSub(M[i][j], Identity4[i][j])), <<1, 100000000>>)

\* apply_to on a geometric object: records the transform, returns on an
\* identity matrix, else replaces the geometry and drops the locators
RECURSIVE TransformPoints(_, _)
TransformPoints(M, pts) ==
    IF pts = <<>> THEN <<>>
    ELSE <<MApplyPoint(M, Head(pts))>> \o TransformPoints(M, Tail(pts))
TransformObject(M, o) ==
    IF AllcloseIdentity(M) THEN o
    ELSE [o EXCEPT !.points = TransformPoints(M, @),
                   !.point_locator = "None",
                   !.cell_locator = "None",
                   !.line_locator = "None"]
apply_to_object(E, w, id, o) ==
    TransformObject(GetMatrix(E, id), [o EXCEPT !.transform = w])

\* apply_to: the engine's Update() behind TransformFloatPoint / GetMatrix
apply_to_read(E, id) == Update(E, id)

reset(E, id) == Identity(E, id)

\* faulty variant of pop: drops the most recently concatenated transform
pop_last(E, id) ==
    Modified([E EXCEPT ![id].list = IF @ = <<>> THEN @ ELSE SubSeq(@, 1, Len(@) - 1),
                       ![id].hasPost = FALSE], id)

pop(E, id) == Pop(E, id)

invert(E, id) == Inverse(E, id)

\* clone: the lookup of self.T.Clone raises; no engine is touched and no
\* LinearTransform is made
clone(E, id) == E

\* compute_inverse: LinearTransform(self.T.GetInverse()), the store once the
\* new wrapper holds the inverse engine
compute_inverse(E, id) == InitEngine(GetInverse(E, id), InverseId(E, id))

concatenate(E, id, other, pre_multiply) ==
    PostMultiply(
        Concatenate(IF pre_multiply THEN PreMultiply(E, id) ELSE E, id, other),
        id)

n_concatenated_transforms(E, id) == GetNumberOfConcatenatedTransforms(E, id)

translate(E, id, p) == Translate(E, id, p)

\* np.linalg.norm(p) > 0, decided on the squared norm
NormPositive(p) == QLess(QZero, VDot(p, p))

\* `if not _is_sequence(s): s = [s, s, s]`
Broadcast(s) == IF ~IsSequence(s) THEN <<s.val, s.val, s.val>> ELSE s.val

\* Translate(-p), Scale(*s), Translate(p)
ScaleAbout(E, id, s3, p) ==
    Translate(Scale(Translate(E, id, VNeg(p)), id, s3), id, p)

\* the body of scale once s is a triple and p = self.T.GetPosition() is read
\* (both pivot branches read it; the last branch does not use it)
ScaleWith(E, id, s3, origin, p) ==
    IF IsTrue(origin)
    THEN IF NormPositive(p) THEN ScaleAbout(E, id, s3, p) ELSE Scale(E, id, s3)
    ELSE IF IsSequence(origin) THEN ScaleAbout(E, id, s3, p)
    ELSE Scale(E, id, s3)

\* GetPosition() is called, and with it Update(), in the two pivot branches
ScaleRead(E, id, origin) ==
    IF IsTrue(origin) \/ IsSequence(origin) THEN Update(E, id) ELSE E

scale(E, id, s, origin) ==
    ScaleWith(ScaleRead(E, id, origin), id, Broadcast(s), origin, GetPosition(E, id))

\* rotate, lines 188-199: the rotation matrix from the half-angle
\* quaternion a, (b, c, d) = -axis * sin(anglerad / 2); the products are
\* taken through the double-angle identities (a*a = (1 + cos)/2,
\* b*b = nx^2 (1 - cos)/2, a*b = -nx sin / 2)
rotate_axis(axis) == VScaleDiv(axis, VNorm(axis))
RFromProducts(aa, bb, cc, dd, bc, ad, ac, ab, bd, cd) ==
    << <<QSub(QSub(QAdd(aa, bb), cc), dd), QDbl(QAdd(bc, ad)), QDbl(QSub(bd, ac))>>,
       <<QDbl(QSub(bc, ad)), QSub(QSub(QAdd(aa, cc), bb), dd), QDbl(QAdd(cd, ab))>>,
       <<QDbl(QAdd(bd, ac)), QDbl(QSub(cd, ab)), QSub(QSub(QAdd(aa, dd), bb), cc)>> >>
RFromHalfAngle(c2, s2, sc, axis) ==
    RFromProducts(c2,
        QMul(QMul(axis[1], axis[1]), s2), QMul(QMul(axis[2], axis[2]), s2),
        QMul(QMul(axis[3], axis[3]), s2),
        QMul(QMul(axis[1], axis[2]), s2), QNeg(QMul(axis[3], sc)),
        QNeg(QMul(axis[2], sc)), QNeg(QMul(axis[1], sc)),
        QMul(QMul(axis[1], axis[3]), s2), QMul(QMul(axis[2], axis[3]), s2))
\* faulty variant of rotate_R: (b, c, d) = +axis * sin(anglerad / 2)
rotate_R_flipped(anglerad, axis) ==
    RFromHalfAngle(HalfCosSq(anglerad), HalfSinSq(anglerad),
                   QNeg(HalfSinCos(anglerad)), axis)

rotate_R(anglerad, axis) ==
    RFromHalfAngle(HalfCosSq(anglerad), HalfSinSq(anglerad), HalfSinCos(anglerad), axis)

\* faulty variant of rotate_rv: the pivot is not added back
rotate_rv_unshifted(R, pos, point) == M3Apply(R, VSub(pos, point))

\* rotate, line 200
rotate_rv(R, pos, point) == VAdd(M3Apply(R, VSub(pos, point)), point)

\* rotate, lines 205-206: the engine's rotation, then the corrective
\* translation to rv
TranslateTo(E, id, rv) == Translate(Update(E, id), id, VSub(rv, GetPosition(E, id)))
RotateThenMove(E, id, deg, ax, rv) == TranslateTo(RotateWXYZ(E, id, deg, ax), id, rv)

RotateAbout(E, id, anglerad, deg, ax, point) ==
    RotateThenMove(E, id, deg, ax,
                   rotate_rv(rotate_R(anglerad, ax), GetPosition(E, id), point))

rotate(E, id, angle, axis, point, rad) ==
    RotateAbout(Update(E, id), id,
                IF rad THEN angle ELSE Deg2Rad(angle),
                IF rad THEN Rad2Deg(angle) ELSE angle,
                rotate_axis(axis), point)

\* _rotatexyz: the engine's rotation about a coordinate axis, between
\* Translate(-around) and Translate(around) when a pivot is given
RotateAxe(E, id, axe, deg) ==
    IF axe = "x" THEN RotateX(E, id, deg)
    ELSE IF axe = "y" THEN RotateY(E, id, deg)
    ELSE RotateZ(E, id, deg)
RotateAround(E, id, axe, deg, around) ==
    IF around = PyNone THEN RotateAxe(E, id, axe, deg)
    ELSE Translate(RotateAxe(Translate(E, id, VNeg(around.val)), id, axe, deg),
                   id, around.val)
rotatexyz(E, id, axe, angle, rad, around) ==
    RotateAround(E, id, axe, IF rad THEN Rad2Deg(angle) ELSE angle, around)

rotate_x(E, id, angle, rad, around) == rotatexyz(E, id, "x", angle, rad, around)
rotate_y(E, id, angle, rad, around) == rotatexyz(E, id, "y", angle, rad, around)
rotate_z(E, id, angle, rad, around) == rotatexyz(E, id, "z", angle, rad, around)

\* set_position: a 2-vector gets z = 0; Translate(p - GetPosition())
PadPosition(p) == IF Len(p) = 2 THEN <<p[1], p[2], QZero>> ELSE p
set_position(E, id, p) ==
    Translate(Update(E, id), id, VSub(PadPosition(p), GetPosition(E, id)))

get_scale(E, id) == GetScale(E, id)

\* set_scale: the correction factor of one axis, and the corrective Scale
ScaleFactor(s, b) == IF b # QZero THEN QDiv(s, b) ELSE QOne
ScaleBy(E, id, s3, b) ==
    Scale(E, id, <<ScaleFactor(s3[1], b[1]), ScaleFactor(s3[2], b[2]),
                   ScaleFactor(s3[3], b[3])>>)
set_scale(E, id, s) == ScaleBy(Update(E, id), id, Broadcast(s), GetScale(E, id))

(***************************************************************************)
(* State.                                                                  *)
(*   eng   the engine store                                                *)
(*   tr    the LinearTransform objects created so far                      *)
(*   obj   one geometric object (its points, locator caches and recorded   *)
(*         transform: 0 is None, else an index of tr)                      *)
(*   nops  number of calls made                                            *)
(*   hist  the last calls, most recent last, each with the state it was    *)
(*         made in and the exception it raised ("None" when it returned)   *)
(***************************************************************************)
VARIABLES eng, tr, obj, nops, hist

vars == <<eng, tr, obj, nops, hist>>

MaxOps == 3
MaxTransforms == 4
HistLen == MaxOps

\* inputs
Shift == V3(<<1, 2, 0>>)
Translations == {Shift, VNeg(Shift)}
ScaleFactors == {Scalar(QI(2)), Sequence(V3(<<1, 2, 1>>))}
Pivot == Sequence(V3(<<1, 0, 0>>))
Origins == {PyTrue, PyFalse, Pivot}
\* quarter turns in radians about the z axis through (1, 0, 0), and in
\* degrees about the -y axis through the origin
Rotations ==
    {<<Q(1, 2), V3(<<0, 0, 2>>), V3(<<1, 0, 0>>), TRUE>>,
     <<Q(-1, 2), V3(<<0, 0, 2>>), V3(<<1, 0, 0>>), TRUE>>,
     <<QI(90), V3(<<0, -1, 0>>), VZero, FALSE>>,
     <<QI(-90), V3(<<0, -1, 0>>), VZero, FALSE>>}
TargetScales == {Scalar(QI(2)), Sequence(V3(<<1, 2, 4>>))}
TestPoints == {V3(<<2, 0, 0>>), V3(<<0, 1, -1>>)}
Positions == {<<QI(5), QI(5)>>, V3(<<1, 0, 2>>)}
AxisTurns ==
    {<<"x", QI(90), FALSE, Sequence(V3(<<0, 1, 0>>))>>,
     <<"y", QI(-90), FALSE, PyNone>>,
     <<"z", Q(1, 2), TRUE, PyNone>>}

\* a quarter turn about z followed by a translation, as a 4x4 nested sequence
MatrixA ==
    << <<QI(0), QI(-1), QI(0), QI(1)>>,
       <<QI(1), QI(0), QI(0), QI(0)>>,
       <<QI(0), QI(0), QI(1), QI(2)>>,
       <<QI(0), QI(0), QI(0), QI(1)>> >>
\* a non-uniform scale as a 3x3 nested sequence
MatrixB ==
    << <<QI(2), QI(0), QI(0)>>,
       <<QI(0), QI(1), QI(0)>>,
       <<QI(0), QI(0), QI(1)>> >>
Matrices == {MatrixA, MatrixB}

InitObj ==
    [points |-> <<V3(<<2, 0, 0>>), V3(<<0, 1, 0>>)>>,
     point_locator |-> "point_locator",
     cell_locator |-> "cell_locator",
     line_locator |-> "line_locator",
     transform |-> 0]

Call(op, w, arg) ==
    [op |-> op, w |-> w, arg |-> arg, eng |-> eng, tr |-> tr, obj |-> obj,
     err |-> "None"]
\* a call that raised e
Raising(c, e) == [c EXCEPT !.err = e]

\* one more call made: the counter and the history
Record(c) ==
    /\ nops < MaxOps
    /\ nops' = nops + 1
    /\ hist' = IF Len(hist) < HistLen THEN Append(hist, c)
               ELSE Append(Tail(hist), c)

Wrappers == 1..Len(tr)

CallTranslate(P) ==
    \E w \in Wrappers : \E p \in P :
        /\ Record(Call("translate", w, p))
        /\ eng' = translate(eng, tr[w].T, p)
        /\ Returns(eng')
        /\ UNCHANGED <<tr, obj>>

CallScale(S, O) ==
    \E w \in Wrappers : \E s \in S : \E o \in O :
        /\ Record(Call("scale", w, <<s, o>>))
        /\ eng' = scale(eng, tr[w].T, s, o)
        /\ Returns(eng')
        /\ UNCHANGED <<tr, obj>>

CallRotate(R) ==
    \E w \in Wrappers : \E r \in R :
        /\ Record(Call("rotate", w, r))
        /\ eng' = rotate(eng, tr[w].T, r[1], r[2], r[3], r[4])
        /\ Returns(eng')
        /\ UNCHANGED <<tr, obj>>

CallSetScale ==
    \E w \in Wrappers : \E s \in TargetScales :
        /\ Record(Call("set_scale", w, s))
        /\ eng' = set_scale(eng, tr[w].T, s)
        /\ Returns(eng')
        /\ UNCHANGED <<tr, obj>>

CallSetPosition ==
    \E w \in Wrappers : \E p \in Positions :
        /\ Record(Call("set_position", w, p))
        /\ eng' = set_position(eng, tr[w].T, p)
        /\ Returns(eng')
        /\ UNCHANGED <<tr, obj>>

CallRotateXYZ ==
    \E w \in Wrappers : \E r \in AxisTurns :
        /\ Record(Call("rotate_" \o r[1], w, r))
        /\ eng' = IF r[1] = "x" THEN rotate_x(eng, tr[w].T, r[2], r[3], r[4])
                  ELSE IF r[1] = "y" THEN rotate_y(eng, tr[w].T, r[2], r[3], r[4])
                  ELSE rotate_z(eng, tr[w].T, r[2], r[3], r[4])
        /\ Returns(eng')
        /\ UNCHANGED <<tr, obj>>

\* reading the matrix property
CallMatrix ==
    \E w \in Wrappers :
        /\ Record(Call("matrix", w, <<>>))
        /\ eng' = matrix_read(eng, tr[w].T)
        /\ Returns(eng')
        /\ UNCHANGED <<tr, obj>>

\* compute_inverse: LinearTransform(self.T.GetInverse())
CallComputeInverse ==
    \E w \in Wrappers :
        /\ Len(tr) < MaxTransforms
        /\ Record(Call("compute_inverse", w, <<>>))
        /\ eng' = compute_inverse(eng, tr[w].T)
        /\ Returns(eng')
        /\ tr' = Append(tr, InitWrapper(InverseId(eng, tr[w].T)))
        /\ UNCHANGED obj

CallInvert ==
    \E w \in Wrappers :
        /\ Record(Call("invert", w, <<>>))
        /\ eng' = invert(eng, tr[w].T)
        /\ Returns(eng')
        /\ tr' = [tr EXCEPT ![w].inverse_flag = GetInverseFlag(eng', tr[w].T)]
        /\ UNCHANGED obj

CallReset ==
    \E w \in Wrappers :
        /\ Record(Call("reset", w, <<>>))
        /\ eng' = reset(eng, tr[w].T)
        /\ Returns(eng')
        /\ UNCHANGED <<tr, obj>>

CallPop ==
    \E w \in Wrappers :
        /\ Record(Call("pop", w, <<>>))
        /\ eng' = pop(eng, tr[w].T)
        /\ Returns(eng')
        /\ UNCHANGED <<tr, obj>>

CallSetMatrix(Ms) ==
    \E w \in Wrappers : \E M \in Ms :
        /\ Record(Call("set_matrix", w, M))
        /\ eng' = set_matrix(eng, tr[w].T, M)
        /\ Returns(eng')
        /\ UNCHANGED <<tr, obj>>

CallConcatenate ==
    \E w \in Wrappers : \E o \in Wrappers : \E pre \in BOOLEAN :
        /\ Record(Call("concatenate", w, <<o, pre>>))
        /\ eng' = concatenate(eng, tr[w].T, tr[o].T, pre)
        /\ Returns(eng')
        /\ UNCHANGED <<tr, obj>>

\* clone: self.T.Clone() raises before a wrapper is made
CallClone ==
    \E w \in Wrappers :
        /\ Record(Raising(Call("clone", w, <<>>), Clone))
        /\ eng' = clone(eng, tr[w].T)
        /\ Returns(eng')
        /\ UNCHANGED <<tr, obj>>

\* get_concatenated_transform(i): LinearTransform(GetConcatenatedTransform(i)).
\* Modelled where entry i is a transform concatenated by reference: the
\* engine hands out that very object, or its inverse engine when the entry
\* is taken through its inverse.
ConcatenatedTransform(E, id, i) ==
    TransformAt(GetTransform(E, id, i + 1), E[id].list[i + 1])
get_concatenated_transform(E, id, i) ==
    InitEngine(GetTransform(E, id, i + 1), ConcatenatedTransform(E, id, i))
CallGetConcatenatedTransform ==
    \E w \in Wrappers : \E i \in 0..(n_concatenated_transforms(eng, tr[w].T) - 1) :
        LET x == eng[tr[w].T].list[i + 1]
        IN  /\ Len(tr) < MaxTransforms
            /\ x.kind = "t"
            /\ Record(Call("get_concatenated_transform", w, i))
            /\ eng' = get_concatenated_transform(eng, tr[w].T, i)
            /\ Returns(eng')
            /\ tr' = Append(tr, InitWrapper(ConcatenatedTransform(eng, tr[w].T, i)))
            /\ UNCHANGED obj

CallApplyTo ==
    \E w \in Wrappers :
        /\ Record(Call("apply_to", w, <<>>))
        /\ obj' = apply_to_object(eng, w, tr[w].T, obj)
        /\ eng' = apply_to_read(eng, tr[w].T)
        /\ Returns(eng')
        /\ UNCHANGED tr

(***************************************************************************)
(* Spec: two transforms, t1 = LinearTransform() and t2 = LinearTransform(M),*)
(* and every call that composes, copies or resets transforms.              *)
(***************************************************************************)
Init ==
    /\ eng = InitFromSequence(InitEngine(<<NewEngine(1)>>, 1), MatrixA)
    /\ tr = <<InitWrapper(1), InitWrapper(2)>>
    /\ obj = InitObj
    /\ nops = 0
    /\ hist = <<>>

Next ==
    \/ CallTranslate({Shift})
    \/ CallScale({Scalar(QI(2))}, {PyTrue})
    \/ CallRotate({<<QI(90), V3(<<0, 0, 2>>), V3(<<1, 0, 0>>), FALSE>>})
    \/ CallInvert
    \/ CallReset
    \/ CallPop
    \/ CallSetMatrix({MatrixB})
    \/ CallConcatenate
    \/ CallClone
    \/ CallGetConcatenatedTransform
    \/ CallComputeInverse
    \/ CallMatrix

Spec == Init /\ [][Next]_vars

(***************************************************************************)
(* SpecGeom: one transform, LinearTransform() or LinearTransform(M), under *)
(* translate, scale, rotate and set_scale.                                 *)
(***************************************************************************)
InitGeom ==
    /\ \/ eng = InitEngine(<<NewEngine(1)>>, 1)
       \/ \E M \in Matrices : eng = InitFromSequence(<<>>, M)
    /\ tr = <<InitWrapper(1)>>
    /\ obj = InitObj
    /\ nops = 0
    /\ hist = <<>>

NextGeom ==
    \/ CallTranslate({Shift})
    \/ CallScale(ScaleFactors, Origins)
    \/ CallRotate(Rotations)
    \/ CallSetScale
    \/ CallSetPosition
    \/ CallRotateXYZ

SpecGeom == InitGeom /\ [][NextGeom]_vars

(***************************************************************************)
(* SpecApply: one transform applied to the geometric object between calls  *)
(* that move it away from the identity and back.                           *)
(***************************************************************************)
InitApply ==
    /\ \/ eng = InitEngine(<<NewEngine(1)>>, 1)
       \/ eng = InitFromSequence(<<>>, MatrixA)
    /\ tr = <<InitWrapper(1)>>
    /\ obj = InitObj
    /\ nops = 0
    /\ hist = <<>>

NextApply ==
    \/ CallTranslate(Translations)
    \/ CallScale({Scalar(QI(2)), Scalar(Q(1, 2))}, {PyFalse})
    \/ CallInvert
    \/ CallReset
    \/ CallSetMatrix({MatrixA})
    \/ CallApplyTo

SpecApply == InitApply /\ [][NextApply]_vars
(***************************************************************************)
(* Properties.                                                             *)
(***************************************************************************)
N == Len(hist)
Last == hist[N]
\* the engine held by the wrapper a call was made on
EngOf(c) == c.tr[c.w].T
LastIs(op) == N >= 1 /\ Last.op = op
MutatingOps ==
    {"translate", "scale", "rotate", "set_scale", "invert", "reset",
     "set_matrix", "concatenate"}

\* pivot + factors * (y - pivot)
AboutPivot(pivot, s3, y) ==
    <<QAdd(pivot[1], QMul(s3[1], QSub(y[1], pivot[1]))),
      QAdd(pivot[2], QMul(s3[2], QSub(y[2], pivot[2]))),
      QAdd(pivot[3], QMul(s3[3], QSub(y[3], pivot[3])))>>

\* C1: after scale(factors, origin=pivot) with pivot a 3-vector, every point
\* x is mapped to pivot + factors * (M(x) - pivot), M being the transform
\* before the call.
C1_ScaleAboutPivot ==
    (LastIs("scale") /\ IsSequence(Last.arg[2])) =>
        \A x \in TestPoints :
            apply_to_point(eng, EngOf(Last), x) =
                AboutPivot(Last.arg[2].val, Broadcast(Last.arg[1]),
                           apply_to_point(Last.eng, EngOf(Last), x))

\* C2: every transform is in post-multiply mode in every state (after
\* construction and after each call returns), and a concatenate(B) without
\* the flag that the engine accepts leaves B * current, whatever was called
\* before, a concatenate(A, pre_multiply=True) included.
C2_PreMultiplyOneShot ==
    /\ \A w \in Wrappers : ~eng[tr[w].T].preMultiply
    /\ (/\ LastIs("concatenate")
        /\ ~Last.arg[2]
        /\ ~CircuitCheck(Last.eng, Last.tr[Last.arg[1]].T, EngOf(Last)).circuit)
       => matrix(eng, EngOf(Last)) =
              MMul(matrix(Last.eng, Last.tr[Last.arg[1]].T),
                   matrix(Last.eng, EngOf(Last)))

\* the state a call of the history left
After(k) == IF k = N THEN [eng |-> eng, tr |-> tr] ELSE hist[k + 1]
\* every mutating call after call k was made on wrapper w
OnlyOn(k, w) ==
    \A j \in (k + 1)..N : hist[j].op \in MutatingOps => hist[j].w = w
\* call k returned the transform c, a copy of t that neither was affected by
\* the calls made on the other
IndependentCopy(k, t, c) ==
    /\ hist[k].err = "None"
    /\ Len(After(k).tr) = Len(hist[k].tr) + 1
    /\ matrix(After(k).eng, tr[c].T) = matrix(After(k).eng, tr[t].T)
    /\ OnlyOn(k, c) => matrix(eng, tr[t].T) = matrix(After(k).eng, tr[t].T)
    /\ OnlyOn(k, t) => matrix(eng, tr[c].T) = matrix(After(k).eng, tr[c].T)

\* C3: c = t.clone() returns a transform whose matrix equals t.matrix right
\* after the call; as long as every mutating call since was made on c,
\* t.matrix is what it was, and as long as every one was made on t, c.matrix
\* is what it was.
C3_CloneIndependent ==
    \A k \in 1..N :
        hist[k].op = "clone" => IndependentCopy(k, hist[k].w, Len(hist[k].tr) + 1)

\* the opposite rotation of a rotate call's arguments
Opposite(r) == <<QNeg(r[1]), r[2], r[3], r[4]>>

\* C4: rotate(angle, axis, point) followed by rotate(-angle, axis, point)
\* restores the full matrix.
C4_RotateUndone ==
    (/\ N >= 2
     /\ hist[N - 1].op = "rotate"
     /\ LastIs("rotate")
     /\ Last.arg = Opposite(hist[N - 1].arg))
    => matrix(eng, EngOf(Last)) = matrix(hist[N - 1].eng, EngOf(Last))

\* C4 witness: such a pair about a pivot off the origin, after an earlier
\* call, where the first rotation changed the matrix
C4_Witness ==
    /\ N >= 3
    /\ hist[N - 1].op = "rotate"
    /\ LastIs("rotate")
    /\ Last.arg = Opposite(hist[N - 1].arg)
    /\ Last.arg[3] # VZero
    /\ matrix(hist[N - 1].eng, EngOf(Last)) # matrix(hist[N - 2].eng, EngOf(Last))
    /\ matrix(Last.eng, EngOf(Last)) # matrix(hist[N - 1].eng, EngOf(Last))

\* the rotation by r * pi about the unit vector n (Rodrigues' formula)
Cross(n) ==
    << <<QZero, QNeg(n[3]), n[2]>>,
       <<n[3], QZero, QNeg(n[1])>>,
       <<QNeg(n[2]), n[1], QZero>> >>
RodriguesCell(c, sn, n, K, i, j) ==
    QAdd(QAdd(IF i = j THEN c ELSE QZero, QMul(QSub(QOne, c), QMul(n[i], n[j]))),
         QMul(sn, K[i][j]))
RodriguesRow(c, sn, n, K, i) ==
    <<RodriguesCell(c, sn, n, K, i, 1), RodriguesCell(c, sn, n, K, i, 2),
      RodriguesCell(c, sn, n, K, i, 3)>>
RodriguesOf(c, sn, n, K) ==
    <<RodriguesRow(c, sn, n, K, 1), RodriguesRow(c, sn, n, K, 2),
      RodriguesRow(c, sn, n, K, 3)>>
Rodrigues(r, n) == RodriguesOf(CosPi(r), SinPi(r), n, Cross(n))
\* the rotation a rotate call asks for
RotationOf(r) ==
    Rodrigues(IF r[4] THEN r[1] ELSE QDiv(r[1], QI(180)),
              VScaleDiv(r[2], VNorm(r[2])))
\* x -> R (x - point) + point as a 4x4 matrix
AboutPoint(R, point) == MMul(TransMat(point), MMul(Embed3(R), TransMat(VNeg(point))))

\* M1 is M0 followed by the rotation R about point
RotatedAbout(M1, M0, R, point) ==
    /\ M1 = MMul(AboutPoint(R, point), M0)
    /\ PositionOf(M1) = VAdd(M3Apply(R, VSub(PositionOf(M0), point)), point)
    /\ MApplyPoint(M1, MApplyPoint(MInv(M0), point)) = point

\* C5: rotate(angle, axis, point) turns the map x -> A x + pos into
\* x -> R (A x + pos - point) + point; the new position is
\* R (pos - point) + point, and the x that was mapped onto point still is.
C5_RotateAboutPoint ==
    LastIs("rotate") =>
        RotatedAbout(matrix(eng, EngOf(Last)), matrix(Last.eng, EngOf(Last)),
                     RotationOf(Last.arg), Last.arg[3])

\* C5 witness: a rotation given in radians about a pivot that is neither the
\* origin nor the transform's position, after an earlier call
C5_Witness ==
    /\ N >= 2
    /\ LastIs("rotate")
    /\ Last.arg[4]
    /\ Last.arg[3] # VZero
    /\ GetPosition(Last.eng, EngOf(Last)) # Last.arg[3]
    /\ GetPosition(eng, EngOf(Last)) # GetPosition(Last.eng, EngOf(Last))

\* C6: apply_to(obj) with an identity matrix leaves the object's geometry
\* and its three locators as they were and records the transform on it.
C6_IdentityShortCircuit ==
    (LastIs("apply_to") /\ matrix(Last.eng, EngOf(Last)) = Identity4) =>
        /\ obj.points = Last.obj.points
        /\ obj.point_locator = Last.obj.point_locator
        /\ obj.cell_locator = Last.obj.cell_locator
        /\ obj.line_locator = Last.obj.line_locator
        /\ obj.transform = Last.w

\* C6 witness: the identity reached by calls that cancel out, applied to an
\* object whose locators are built
C6_Witness ==
    /\ LastIs("apply_to")
    /\ matrix(Last.eng, EngOf(Last)) = Identity4
    /\ Last.eng[EngOf(Last)].list # <<>>
    /\ Last.obj.point_locator # "None"
    /\ Last.obj.transform = 0

\* C7: after set_scale(s) on a transform whose scale is nonzero on every
\* axis, get_scale() returns s.
C7_SetScaleAbsolute ==
    (/\ LastIs("set_scale")
     /\ \A i \in I3 : get_scale(Last.eng, EngOf(Last))[i] # QZero)
    => get_scale(eng, EngOf(Last)) = Broadcast(Last.arg)

\* concatenate(A), concatenate(B), pop() on one transform, both
\* concatenations accepted by the engine
ConcatConcatPop ==
    /\ N >= 3
    /\ hist[N - 2].op = "concatenate"
    /\ hist[N - 1].op = "concatenate"
    /\ LastIs("pop")
    /\ hist[N - 2].w = Last.w
    /\ hist[N - 1].w = Last.w
    /\ n_concatenated_transforms(hist[N - 1].eng, EngOf(Last)) =
           n_concatenated_transforms(hist[N - 2].eng, EngOf(Last)) + 1
    /\ n_concatenated_transforms(Last.eng, EngOf(Last)) =
           n_concatenated_transforms(hist[N - 1].eng, EngOf(Last)) + 1

\* C8 as stated: after concatenate(A), concatenate(B), pop() the matrix is
\* the one right after concatenate(A) and n_concatenated_transforms is one
\* less than before the pop.
C8_PopRemovesLast ==
    ConcatConcatPop =>
        /\ matrix(eng, EngOf(Last)) = matrix(hist[N - 1].eng, EngOf(Last))
        /\ n_concatenated_transforms(eng, EngOf(Last)) =
               n_concatenated_transforms(Last.eng, EngOf(Last)) - 1

\* C8 amended: nothing having been pushed, pop() removes nothing: after
\* concatenate(A), concatenate(B), pop() the matrix is the one right after
\* concatenate(B) and n_concatenated_transforms is what it was before the pop.
C8_PopKeepsAll ==
    ConcatConcatPop =>
        /\ matrix(eng, EngOf(Last)) = matrix(Last.eng, EngOf(Last))
        /\ n_concatenated_transforms(eng, EngOf(Last)) =
               n_concatenated_transforms(Last.eng, EngOf(Last))

\* C8 witness: the three calls made, B having changed the matrix
C8_Witness ==
    /\ ConcatConcatPop
    /\ matrix(Last.eng, EngOf(Last)) # matrix(hist[N - 1].eng, EngOf(Last))
    /\ n_concatenated_transforms(Last.eng, EngOf(Last)) = 2

\* C9: a mutating call on the Transform that get_concatenated_transform(i)
\* returned leaves the matrix, the stack entries and
\* n_concatenated_transforms of the Transform it came from unchanged.
C9_ConcatenatedIndependent ==
    (/\ N >= 2
     /\ hist[N - 1].op = "get_concatenated_transform"
     /\ Last.op \in MutatingOps
     /\ Last.w = Len(hist[N - 1].tr) + 1)
    => /\ matrix(eng, EngOf(hist[N - 1])) = matrix(Last.eng, EngOf(hist[N - 1]))
       /\ eng[EngOf(hist[N - 1])].list = Last.eng[EngOf(hist[N - 1])].list
       /\ n_concatenated_transforms(eng, EngOf(hist[N - 1])) =
              n_concatenated_transforms(Last.eng, EngOf(hist[N - 1]))

\* C10: every transform's inverse_flag is the inverse flag its engine
\* reports, and each invert() call toggles it.
C10_InverseFlagTracks ==
    /\ \A w \in Wrappers : tr[w].inverse_flag = GetInverseFlag(eng, tr[w].T)
    /\ LastIs("invert") => tr[Last.w].inverse_flag # Last.tr[Last.w].inverse_flag
=============================================================================
